---- MODULE Spec2Model ----
(***************************************************************************)
(* Model of server.js: an Express service that loads an email -> login     *)
(* link table from a CSV file (loadCsv), keeps it in the module-level      *)
(* store (emailToLink, lastLoadedPath) and serves /health, /lookup and     *)
(* /reload.  Node runs every callback of the file to completion, so each   *)
(* request handler and each stream callback ('data', 'end', 'error') is    *)
(* one action; callbacks of different loads and requests interleave.       *)
(*                                                                         *)
(* JavaScript strings are sequences of one-character strings, so that trim *)
(* and toLowerCase are computed.  A value that may be undefined is a set   *)
(* with at most one element: {} is undefined, {v} is the value v.          *)
(***************************************************************************)
EXTENDS Integers, Sequences, FiniteSets, TLC

VARIABLES
    env,            \* process.env: CSV_PATH and API_ACCESS_KEY, each possibly unset
    files,          \* the file system: absolute path -> file (absent = no such path)
    phase,          \* "boot" | "loading" | "listening" | "exited" | "crashed"
    emailToLink,    \* the active Map (server.js:37)
    lastLoadedPath, \* server.js:38
    installed,      \* has an 'end' handler ever installed a table
    loads,          \* the loadCsv calls in flight, in the order they were issued
    resp            \* the response sent last, with the request it answers

vars == <<env, files, phase, emailToLink, lastLoadedPath, installed, loads, resp>>

(***************************************************************************)
(* Bounds                                                                  *)
(***************************************************************************)
MaxLoads == 2   \* loadCsv calls in flight at once
MaxRows == 2    \* rows of a drawn source file
MaxLen == 3     \* characters of a drawn key

(***************************************************************************)
(* JavaScript values                                                       *)
(***************************************************************************)
Undefined == {}

Some(v) == {v}

TheValue(opt) == CHOOSE v \in opt : TRUE

\* opt ?? d
Coalesce(opt, d) == IF opt = Undefined THEN d ELSE TheValue(opt)

\* opt || d, for a string or undefined: undefined and '' are falsy
OrElse(opt, d) == IF opt = Undefined \/ opt = Some(<<>>) THEN d ELSE TheValue(opt)

\* obj[name], undefined when the object has no such property
Field(obj, name) == IF name \in DOMAIN obj THEN Some(obj[name]) ELSE Undefined

\* obj?.name, for an object that may itself be undefined
OptField(optObj, name) ==
    IF optObj = Undefined THEN Undefined ELSE Field(TheValue(optObj), name)

IsSpace(c) == c = " "

RECURSIVE TrimStart(_)
TrimStart(s) ==
    IF s # <<>> /\ IsSpace(Head(s)) THEN TrimStart(Tail(s)) ELSE s

RECURSIVE TrimEnd(_)
TrimEnd(s) ==
    IF s # <<>> /\ IsSpace(s[Len(s)]) THEN TrimEnd(SubSeq(s, 1, Len(s) - 1)) ELSE s

\* String.prototype.trim
Trim(s) == TrimEnd(TrimStart(s))

LowerChar(c) ==
    CASE c = "A" -> "a"
      [] c = "B" -> "b"
      [] c = "C" -> "c"
      [] OTHER -> c

\* String.prototype.toLowerCase
RECURSIVE ToLowerCase(_)
ToLowerCase(s) ==
    IF s = <<>> THEN <<>> ELSE <<LowerChar(Head(s))>> \o ToLowerCase(Tail(s))

\* A Map: a function from its keys to their values
EmptyMap == [k \in {} |-> <<>>]

MapHas(m, k) == k \in DOMAIN m

MapGet(m, k) == IF k \in DOMAIN m THEN Some(m[k]) ELSE Undefined

MapSet(m, k, v) == [x \in DOMAIN m \cup {k} |-> IF x = k THEN v ELSE m[x]]

MapSize(m) == Cardinality(DOMAIN m)

(***************************************************************************)
(* Paths: the sequence of segments between the separators, with a leading  *)
(* "" segment for an absolute path ("/app/x.csv" is <<"", "app", "x.csv">>)*)
(***************************************************************************)
Cwd == <<"", "app">>

isAbsolute(p) == p # <<>> /\ p[1] = ""

PathJoin(a, b) == a \o b

(***************************************************************************)
(* Configuration                                                           *)
(***************************************************************************)
DEFAULT_CSV_PATH ==
    IF env.CSV_PATH # Undefined /\ env.CSV_PATH # Some(<<>>)
    THEN PathJoin(Cwd, TheValue(env.CSV_PATH))
    ELSE PathJoin(Cwd, <<"data", "magic_login_list.csv">>)

API_ACCESS_KEY == OrElse(env.API_ACCESS_KEY, <<>>)

EMAIL_COL == "Email"

LINK_COL == "Login Link"

\* authGuard without the "disabled" test of its first line
authGuardAlwaysOn(key) == key = Some(API_ACCESS_KEY)

\* authGuard calls next() (TRUE) or answers 401 (FALSE)
authGuard(key) ==
    IF API_ACCESS_KEY = <<>> THEN TRUE
    ELSE IF key # Some(API_ACCESS_KEY) THEN FALSE
    ELSE TRUE

\* norm stripping one whitespace character at each end instead of all of them
normTrimOne(str) ==
    LET s == Coalesce(str, <<>>)
        a == IF s # <<>> /\ IsSpace(Head(s)) THEN Tail(s) ELSE s
        b == IF a # <<>> /\ IsSpace(a[Len(a)]) THEN SubSeq(a, 1, Len(a) - 1) ELSE a
    IN  ToLowerCase(b)

(***************************************************************************)
(* Store and loader                                                        *)
(***************************************************************************)
norm(str) == ToLowerCase(Trim(Coalesce(str, <<>>)))

existsSync(p) == p \in DOMAIN files

\* OnDataRow with the duplicate rule the source's comment offers instead:
\* last write wins
OnDataRowLastWins(tmp, row) ==
    LET email == norm(Field(row, EMAIL_COL))
        link == Trim(Coalesce(Field(row, LINK_COL), <<>>))
    IN  IF email # <<>> /\ link # <<>> THEN MapSet(tmp, email, link) ELSE tmp

\* OnDataRow storing the link field as read, untrimmed
OnDataRowRawLink(tmp, row) ==
    LET email == norm(Field(row, EMAIL_COL))
        link == Trim(Coalesce(Field(row, LINK_COL), <<>>))
    IN  IF email # <<>> /\ link # <<>>
        THEN IF ~MapHas(tmp, email)
             THEN MapSet(tmp, email, Coalesce(Field(row, LINK_COL), <<>>))
             ELSE tmp
        ELSE tmp

\* OnDataRow testing the key only: a row with an empty link is stored
OnDataRowKeepEmpty(tmp, row) ==
    LET email == norm(Field(row, EMAIL_COL))
        link == Trim(Coalesce(Field(row, LINK_COL), <<>>))
    IN  IF email # <<>>
        THEN IF ~MapHas(tmp, email) THEN MapSet(tmp, email, link) ELSE tmp
        ELSE tmp

\* the 'data' handler: the working map after one row
OnDataRow(tmp, row) ==
    LET email == norm(Field(row, EMAIL_COL))
        link == Trim(Coalesce(Field(row, LINK_COL), <<>>))
    IN  IF email # <<>> /\ link # <<>>
        THEN IF ~MapHas(tmp, email) THEN MapSet(tmp, email, link) ELSE tmp
        ELSE tmp

\* InstallTable filling the active map in place instead of replacing it
MergeTable(active, tmp) ==
    [k \in DOMAIN active \cup DOMAIN tmp |->
        IF k \in DOMAIN tmp THEN tmp[k] ELSE active[k]]

\* the 'end' handler's assignment to the active map
InstallTable(active, tmp) == tmp

\* a loadCsv call that passed existsSync: const tmp = new Map(), the stream opened
NewLoad(csvPath, owner) ==
    [csvPath |-> csvPath, tmp |-> EmptyMap, pos |-> 0, owner |-> owner,
     overtaken |-> FALSE]

RemoveAt(s, i) == SubSeq(s, 1, i - 1) \o SubSeq(s, i + 1, Len(s))

\* the loads left in flight when load i has ended: the ones issued before it
\* have been overtaken
AfterEnd(s, i) ==
    LET rest == RemoveAt(s, i)
    IN  [j \in 1..Len(rest) |->
            IF j < i THEN [rest[j] EXCEPT !.overtaken = TRUE] ELSE rest[j]]

\* a response: the route answered, the status, the JSON body, and whether the
\* load it reports was overtaken by a load issued after it
Response(route, status, body) ==
    [route |-> route, status |-> status, body |-> body, overtaken |-> FALSE]

NoResponse == Response("none", 0, [none |-> TRUE])

(***************************************************************************)
(* The file system and the inputs                                          *)
(***************************************************************************)
\* a row as csv-parser hands it over: an object keyed by the header's columns
Row(email, link) ==
    [c \in (IF email = Undefined THEN {} ELSE {EMAIL_COL})
            \cup (IF link = Undefined THEN {} ELSE {LINK_COL}) |->
        IF c = EMAIL_COL THEN TheValue(email) ELSE TheValue(link)]

\* a regular file: its rows, and whether the row stream ends in 'error'
\* instead of 'end'
RegularFile(rows, bad) == [kind |-> "file", rows |-> rows, bad |-> bad]

Directory == [kind |-> "dir", rows |-> <<>>, bad |-> FALSE]

MagicListPath == PathJoin(Cwd, <<"data", "magic_login_list.csv">>)

AltPath == PathJoin(Cwd, <<"alt.csv">>)

BadPath == PathJoin(Cwd, <<"bad.csv">>)

DirPath == PathJoin(Cwd, <<"data">>)

FixedFiles ==
    (MagicListPath :> RegularFile(<<Row(Some(<<"A">>), Some(<<"1">>))>>, FALSE))
    @@ (AltPath :> RegularFile(
        <<Row(Some(<<" ", "b">>), Some(<<"2">>)), Row(Some(<<"a", " ">>), Some(<<" ", "2">>))>>,
        FALSE))
    @@ (BadPath :> RegularFile(<<Row(Some(<<"c">>), Some(<<"1">>))>>, TRUE))
    @@ (DirPath :> Directory)

CsvPathInputs == {Undefined, Some(<<"missing.csv">>), Some(<<"bad.csv">>), Some(<<"data">>)}

AccessKeyInputs == {Undefined, Some(<<>>), Some(<<"k">>)}

\* the x-api-key header of a request
KeyInputs == {Undefined, Some(<<"k">>), Some(<<"x">>)}

\* the email of a lookup request
EmailInputs ==
    {Undefined, Some(<<" ">>), Some(<<" ", "A">>), Some(<<"b">>), Some(<<"c">>)}

EmptyObject == [k \in {} |-> <<>>]

\* the JSON body of POST /lookup
LookupBodyInputs ==
    {Undefined, Some(EmptyObject)}
        \cup {Some("email" :> TheValue(e)) : e \in EmailInputs \ {Undefined}}

PathInputs ==
    {<<>>, <<"alt.csv">>, AltPath, <<"bad.csv">>, <<"data">>, <<"missing.csv">>}

\* the JSON body of POST /reload
ReloadBodyInputs == {Undefined} \cup {Some("path" :> p) : p \in PathInputs}

\* the Email and Login Link fields of a drawn row (a column may be missing)
KeyFieldInputs ==
    {Undefined, Some(<<" ">>), Some(<<"a">>), Some(<<"A", " ">>), Some(<<"b">>)}

LinkFieldInputs == {Undefined, Some(<<" ">>), Some(<<"1">>), Some(<<"2", " ">>)}

RowInputs == {Row(k, l) : k \in KeyFieldInputs, l \in LinkFieldInputs}

RowSeqs(n) == UNION {[1..m -> RowInputs] : m \in 0..n}

(***************************************************************************)
(* Startup (server.js:108-120)                                             *)
(***************************************************************************)
Init ==
    /\ env \in [CSV_PATH : CsvPathInputs, API_ACCESS_KEY : AccessKeyInputs]
    /\ files = FixedFiles
    /\ phase = "boot"
    /\ emailToLink = EmptyMap
    /\ lastLoadedPath = DEFAULT_CSV_PATH
    /\ installed = FALSE
    /\ loads = <<>>
    /\ resp = NoResponse

\* Startup with app.listen called before the initial load has ended
StartupListensFirst ==
    /\ phase = "boot"
    /\ IF ~existsSync(DEFAULT_CSV_PATH)
       THEN /\ phase' = "exited"
            /\ UNCHANGED loads
       ELSE /\ phase' = "listening"
            /\ loads' = Append(loads, NewLoad(DEFAULT_CSV_PATH, "startup"))
    /\ UNCHANGED <<env, files, emailToLink, lastLoadedPath, installed, resp>>

\* loadCsv(DEFAULT_CSV_PATH): a missing file rejects, and the catch exits
Startup ==
    /\ phase = "boot"
    /\ IF ~existsSync(DEFAULT_CSV_PATH)
       THEN /\ phase' = "exited"
            /\ UNCHANGED loads
       ELSE /\ phase' = "loading"
            /\ loads' = Append(loads, NewLoad(DEFAULT_CSV_PATH, "startup"))
    /\ UNCHANGED <<env, files, emailToLink, lastLoadedPath, installed, resp>>

(***************************************************************************)
(* The stream callbacks of a load in flight (server.js:52-67)              *)
(***************************************************************************)
Running == phase \in {"loading", "listening"}

FileOf(load) == files[load.csvPath]

\* OnData of a loader that also writes each row into the active map
OnDataInPlace(i) ==
    /\ Running
    /\ i \in DOMAIN loads
    /\ FileOf(loads[i]).kind = "file"
    /\ loads[i].pos < Len(FileOf(loads[i]).rows)
    /\ loads' = [loads EXCEPT
            ![i].tmp = OnDataRow(@, FileOf(loads[i]).rows[loads[i].pos + 1]),
            ![i].pos = @ + 1]
    /\ emailToLink' = OnDataRow(emailToLink, FileOf(loads[i]).rows[loads[i].pos + 1])
    /\ UNCHANGED <<env, files, phase, lastLoadedPath, installed, resp>>

\* 'data': the next row goes into the load's working map
OnData(i) ==
    /\ Running
    /\ i \in DOMAIN loads
    /\ FileOf(loads[i]).kind = "file"
    /\ loads[i].pos < Len(FileOf(loads[i]).rows)
    /\ loads' = [loads EXCEPT
            ![i].tmp = OnDataRow(@, FileOf(loads[i]).rows[loads[i].pos + 1]),
            ![i].pos = @ + 1]
    /\ UNCHANGED <<env, files, phase, emailToLink, lastLoadedPath, installed, resp>>

\* OnEnd recording the path of the load issued last, as it would with a
\* path variable shared by the loadCsv calls
OnEndSharedPath(i) ==
    /\ Running
    /\ i \in DOMAIN loads
    /\ FileOf(loads[i]).kind = "file"
    /\ loads[i].pos = Len(FileOf(loads[i]).rows)
    /\ ~FileOf(loads[i]).bad
    /\ emailToLink' = InstallTable(emailToLink, loads[i].tmp)
    /\ lastLoadedPath' = loads[Len(loads)].csvPath
    /\ installed' = TRUE
    /\ loads' = AfterEnd(loads, i)
    /\ IF loads[i].owner = "startup"
       THEN /\ phase' = "listening"
            /\ UNCHANGED resp
       ELSE /\ resp' = [Response("POST /reload", 200,
                            [reloaded |-> TRUE, count |-> MapSize(emailToLink'),
                             path |-> loads[i].csvPath])
                        EXCEPT !.overtaken = loads[i].overtaken]
            /\ UNCHANGED phase
    /\ UNCHANGED <<env, files>>

\* OnEnd resolving with the size the active table had before the install
OnEndCountsOld(i) ==
    /\ Running
    /\ i \in DOMAIN loads
    /\ FileOf(loads[i]).kind = "file"
    /\ loads[i].pos = Len(FileOf(loads[i]).rows)
    /\ ~FileOf(loads[i]).bad
    /\ emailToLink' = InstallTable(emailToLink, loads[i].tmp)
    /\ lastLoadedPath' = loads[i].csvPath
    /\ installed' = TRUE
    /\ loads' = AfterEnd(loads, i)
    /\ IF loads[i].owner = "startup"
       THEN /\ phase' = "listening"
            /\ UNCHANGED resp
       ELSE /\ resp' = [Response("POST /reload", 200,
                            [reloaded |-> TRUE, count |-> MapSize(emailToLink),
                             path |-> loads[i].csvPath])
                        EXCEPT !.overtaken = loads[i].overtaken]
            /\ UNCHANGED phase
    /\ UNCHANGED <<env, files>>

\* 'end': install, resolve; the awaiting caller continues
OnEnd(i) ==
    /\ Running
    /\ i \in DOMAIN loads
    /\ FileOf(loads[i]).kind = "file"
    /\ loads[i].pos = Len(FileOf(loads[i]).rows)
    /\ ~FileOf(loads[i]).bad
    /\ emailToLink' = InstallTable(emailToLink, loads[i].tmp)
    /\ lastLoadedPath' = loads[i].csvPath
    /\ installed' = TRUE
    /\ loads' = AfterEnd(loads, i)
    /\ IF loads[i].owner = "startup"
       THEN /\ phase' = "listening"
            /\ UNCHANGED resp
       ELSE /\ resp' = [Response("POST /reload", 200,
                            [reloaded |-> TRUE, count |-> MapSize(emailToLink'),
                             path |-> loads[i].csvPath])
                        EXCEPT !.overtaken = loads[i].overtaken]
            /\ UNCHANGED phase
    /\ UNCHANGED <<env, files>>

\* OnError of a loader that fills the active map: the failed load's rows stay
OnErrorKeepsRows(i) ==
    /\ Running
    /\ i \in DOMAIN loads
    /\ FileOf(loads[i]).kind = "file"
    /\ loads[i].pos = Len(FileOf(loads[i]).rows)
    /\ FileOf(loads[i]).bad
    /\ loads' = RemoveAt(loads, i)
    /\ emailToLink' = loads[i].tmp
    /\ IF loads[i].owner = "startup"
       THEN /\ phase' = "exited"
            /\ UNCHANGED resp
       ELSE /\ resp' = Response("POST /reload", 500, [error |-> <<"Invalid row">>])
            /\ UNCHANGED phase
    /\ UNCHANGED <<env, files, lastLoadedPath, installed>>

\* 'error' on the csv() stream: reject; POST /reload's catch answers 500 with
\* e.message, the startup catch exits
OnError(i) ==
    /\ Running
    /\ i \in DOMAIN loads
    /\ FileOf(loads[i]).kind = "file"
    /\ loads[i].pos = Len(FileOf(loads[i]).rows)
    /\ FileOf(loads[i]).bad
    /\ loads' = RemoveAt(loads, i)
    /\ IF loads[i].owner = "startup"
       THEN /\ phase' = "exited"
            /\ UNCHANGED resp
       ELSE /\ resp' = Response("POST /reload", 500, [error |-> <<"Invalid row">>])
            /\ UNCHANGED phase
    /\ UNCHANGED <<env, files, emailToLink, lastLoadedPath, installed>>

\* 'error' on the fs.createReadStream stream (EISDIR): pipe() forwards no
\* errors and the only 'error' listener is on the csv() stream, so the event
\* has no listener and is thrown as an uncaught exception
ReadStreamError(i) ==
    /\ Running
    /\ i \in DOMAIN loads
    /\ FileOf(loads[i]).kind = "dir"
    /\ phase' = "crashed"
    /\ UNCHANGED <<env, files, emailToLink, lastLoadedPath, installed, loads, resp>>

\* GetHealthResponse reporting the configured path instead of the loaded one
GetHealthResponseDefaultPath ==
    Response("GET /health", 200,
        [ok |-> TRUE, loaded |-> MapSize(emailToLink), csvPath |-> DEFAULT_CSV_PATH])

(***************************************************************************)
(* Routes (server.js:72-106); key is the x-api-key header of a guarded      *)
(* request; the unguarded routes never read the header                     *)
(***************************************************************************)
GetHealthResponse ==
    Response("GET /health", 200,
        [ok |-> TRUE, loaded |-> MapSize(emailToLink), csvPath |-> lastLoadedPath])

GetHealth ==
    /\ phase = "listening"
    /\ resp' = GetHealthResponse
    /\ UNCHANGED <<env, files, phase, emailToLink, lastLoadedPath, installed, loads>>

\* GetLookupResponse echoing the normalized key instead of the trimmed input
GetLookupResponseEchoNorm(query) ==
    LET email == norm(query)
        link == MapGet(emailToLink, email)
    IN  IF email = <<>>
        THEN Response("GET /lookup", 400, [error |-> <<"Missing email query param">>])
        ELSE IF link = Undefined \/ link = Some(<<>>)
        THEN Response("GET /lookup", 404, [error |-> <<"Not found">>])
        ELSE Response("GET /lookup", 200, [email |-> email, loginLink |-> TheValue(link)])

\* app.get('/lookup'): query is req.query.email
GetLookupResponse(query) ==
    LET email == norm(query)
        link == MapGet(emailToLink, email)
    IN  IF email = <<>>
        THEN Response("GET /lookup", 400, [error |-> <<"Missing email query param">>])
        ELSE IF link = Undefined \/ link = Some(<<>>)
        THEN Response("GET /lookup", 404, [error |-> <<"Not found">>])
        ELSE Response("GET /lookup", 200,
                [email |-> Trim(OrElse(query, <<>>)), loginLink |-> TheValue(link)])

\* GetLookup held back until no load is in flight
GetLookupWaits(query) ==
    /\ phase = "listening"
    /\ loads = <<>>
    /\ resp' = GetLookupResponse(query)
    /\ UNCHANGED <<env, files, phase, emailToLink, lastLoadedPath, installed, loads>>

GetLookup(query) ==
    /\ phase = "listening"
    /\ resp' = GetLookupResponse(query)
    /\ UNCHANGED <<env, files, phase, emailToLink, lastLoadedPath, installed, loads>>

\* PostLookupResponse echoing the email as sent, untrimmed
PostLookupResponseRawEcho(body) ==
    LET email == norm(OptField(body, "email"))
        link == MapGet(emailToLink, email)
    IN  IF email = <<>>
        THEN Response("POST /lookup", 400, [error |-> <<"Missing \"email\" in JSON body">>])
        ELSE IF link = Undefined \/ link = Some(<<>>)
        THEN Response("POST /lookup", 404, [error |-> <<"Not found">>])
        ELSE Response("POST /lookup", 200,
                [email |-> Coalesce(OptField(body, "email"), <<>>),
                 loginLink |-> TheValue(link)])

\* app.post('/lookup') past the guard: body is req.body
PostLookupResponse(body) ==
    LET email == norm(OptField(body, "email"))
        link == MapGet(emailToLink, email)
    IN  IF email = <<>>
        THEN Response("POST /lookup", 400, [error |-> <<"Missing \"email\" in JSON body">>])
        ELSE IF link = Undefined \/ link = Some(<<>>)
        THEN Response("POST /lookup", 404, [error |-> <<"Not found">>])
        ELSE Response("POST /lookup", 200,
                [email |-> Trim(Coalesce(OptField(body, "email"), <<>>)),
                 loginLink |-> TheValue(link)])

Unauthorized(route) == Response(route, 401, [error |-> <<"Unauthorized">>])

\* app.post('/lookup', authGuard, ...)
PostLookupHandler(key, body) ==
    IF authGuard(key) THEN PostLookupResponse(body) ELSE Unauthorized("POST /lookup")

PostLookup(key, body) ==
    /\ phase = "listening"
    /\ resp' = PostLookupHandler(key, body)
    /\ UNCHANGED <<env, files, phase, emailToLink, lastLoadedPath, installed, loads>>

\* ReloadPath falling back to the path of the last successful load
ReloadPathLast(body) ==
    LET reqPath == OrElse(OptField(body, "path"), lastLoadedPath)
    IN  IF isAbsolute(reqPath) THEN reqPath ELSE PathJoin(Cwd, reqPath)

\* the path POST /reload loads
ReloadPath(body) ==
    LET reqPath == OrElse(OptField(body, "path"), DEFAULT_CSV_PATH)
    IN  IF isAbsolute(reqPath) THEN reqPath ELSE PathJoin(Cwd, reqPath)

\* ReloadOutcome with the guard run after loadCsv was called
ReloadOutcomeGuardLast(key, body) ==
    IF ~existsSync(ReloadPath(body))
    THEN [resp |-> IF authGuard(key)
                   THEN Response("POST /reload", 500,
                            [error |-> <<"CSV not found: ", ReloadPath(body)>>])
                   ELSE Unauthorized("POST /reload"),
          loads |-> loads]
    ELSE [resp |-> IF authGuard(key) THEN resp ELSE Unauthorized("POST /reload"),
          loads |-> Append(loads, NewLoad(ReloadPath(body), "reload"))]

\* app.post('/reload', authGuard, ...) up to its await: the response last sent
\* and the loads in flight afterwards. The guard answers 401; loadCsv's
\* synchronous part rejects a missing path (500) or opens the stream, and no
\* response is sent yet.
ReloadOutcome(key, body) ==
    IF ~authGuard(key)
    THEN [resp |-> Unauthorized("POST /reload"), loads |-> loads]
    ELSE IF ~existsSync(ReloadPath(body))
    THEN [resp |-> Response("POST /reload", 500,
                        [error |-> <<"CSV not found: ", ReloadPath(body)>>]),
          loads |-> loads]
    ELSE [resp |-> resp,
          loads |-> Append(loads, NewLoad(ReloadPath(body), "reload"))]

PostReload(key, body) ==
    /\ phase = "listening"
    /\ Len(ReloadOutcome(key, body).loads) <= MaxLoads
    /\ resp' = ReloadOutcome(key, body).resp
    /\ loads' = ReloadOutcome(key, body).loads
    /\ UNCHANGED <<env, files, phase, emailToLink, lastLoadedPath, installed>>

Next ==
    \/ Startup
    \/ \E i \in 1..MaxLoads : OnData(i)
    \/ \E i \in 1..MaxLoads : OnEnd(i)
    \/ \E i \in 1..MaxLoads : OnError(i)
    \/ \E i \in 1..MaxLoads : ReadStreamError(i)
    \/ GetHealth
    \/ \E query \in EmailInputs : GetLookup(query)
    \/ \E key \in KeyInputs, body \in LookupBodyInputs : PostLookup(key, body)
    \/ \E key \in KeyInputs, body \in ReloadBodyInputs : PostReload(key, body)

Spec == Init /\ [][Next]_vars

(***************************************************************************)
(* Fair scheduling of the stream callbacks: a stream that has an event to  *)
(* deliver ('data', 'end', 'error') delivers it; requests may or may not   *)
(* arrive                                                                   *)
(***************************************************************************)
StreamStep(i) == OnData(i) \/ OnEnd(i) \/ OnError(i) \/ ReadStreamError(i)

SpecFair == Init /\ [][Next]_vars /\ \A i \in 1..MaxLoads : WF_vars(StreamStep(i))

(***************************************************************************)
(* The service with the guard switched off and the default source: the     *)
(* environment sets neither CSV_PATH nor API_ACCESS_KEY                     *)
(***************************************************************************)
InitOpen ==
    /\ Init
    /\ env = [CSV_PATH |-> Undefined, API_ACCESS_KEY |-> Undefined]

SpecOpen == InitOpen /\ [][Next]_vars

(***************************************************************************)
(* A single load of an arbitrary source: the default file holds any row    *)
(* sequence of at most MaxRows rows, the service starts and answers GETs.  *)
(***************************************************************************)
InitRows ==
    /\ env = [CSV_PATH |-> Undefined, API_ACCESS_KEY |-> Undefined]
    /\ \E rows \in RowSeqs(MaxRows) :
            files = (MagicListPath :> RegularFile(rows, FALSE))
    /\ phase = "boot"
    /\ emailToLink = EmptyMap
    /\ lastLoadedPath = DEFAULT_CSV_PATH
    /\ installed = FALSE
    /\ loads = <<>>
    /\ resp = NoResponse

NextRows ==
    \/ Startup
    \/ \E i \in 1..MaxLoads : OnData(i)
    \/ \E i \in 1..MaxLoads : OnEnd(i)
    \/ GetHealth
    \/ \E query \in EmailInputs : GetLookup(query)

SpecRows == InitRows /\ [][NextRows]_vars

(***************************************************************************)
(* A single load of a source of one row whose key is any string of at most *)
(* MaxLen characters, looked up under any such string.                     *)
(***************************************************************************)
KeyChars == {" ", "a", "A"}

KeyStrings == UNION {[1..m -> KeyChars] : m \in 0..MaxLen}

InitNorm ==
    /\ env = [CSV_PATH |-> Undefined, API_ACCESS_KEY |-> Undefined]
    /\ \E K \in KeyStrings :
            files = (MagicListPath :> RegularFile(<<Row(Some(K), Some(<<"1">>))>>, FALSE))
    /\ phase = "boot"
    /\ emailToLink = EmptyMap
    /\ lastLoadedPath = DEFAULT_CSV_PATH
    /\ installed = FALSE
    /\ loads = <<>>
    /\ resp = NoResponse

NextNorm ==
    \/ Startup
    \/ \E i \in 1..MaxLoads : OnData(i)
    \/ \E i \in 1..MaxLoads : OnEnd(i)
    \/ \E K \in KeyStrings : GetLookup(Some(K))

SpecNorm == InitNorm /\ [][NextNorm]_vars

(***************************************************************************)
(* What the claims speak of                                                *)
(***************************************************************************)
\* the store's lookup: normalize the key, query the active table
lookup(key) == MapGet(emailToLink, norm(key))

\* the normalized key and the trimmed value of a source row
RowKey(row) == ToLowerCase(Trim(IF EMAIL_COL \in DOMAIN row THEN row[EMAIL_COL] ELSE <<>>))

RowLink(row) == Trim(IF LINK_COL \in DOMAIN row THEN row[LINK_COL] ELSE <<>>)

\* a row with a non-empty key and a non-empty value
FilledRow(row) == RowKey(row) # <<>> /\ RowLink(row) # <<>>

\* the rows of the source the active table was loaded from
SourceRows == files[lastLoadedPath].rows

\* the position of the earliest filled row of the source with normalized key k
FirstFilled(k) ==
    CHOOSE i \in DOMAIN SourceRows :
        /\ FilledRow(SourceRows[i]) /\ RowKey(SourceRows[i]) = k
        /\ \A j \in 1..(i - 1) :
                ~(FilledRow(SourceRows[j]) /\ RowKey(SourceRows[j]) = k)

\* C3: after a successful load, whenever two rows of the source have the same
\* normalized key and both have non-empty trimmed values, a lookup of the key
\* (as either row spells it) returns the value of the earliest such row and
\* not the value of a later one that differs.
DuplicateKeyFirstWins ==
    phase = "listening" =>
        \A i, j \in DOMAIN SourceRows :
            (/\ i < j
             /\ FilledRow(SourceRows[i]) /\ FilledRow(SourceRows[j])
             /\ RowKey(SourceRows[i]) = RowKey(SourceRows[j]))
            => LET first == SourceRows[FirstFilled(RowKey(SourceRows[j]))]
               IN  /\ lookup(Field(SourceRows[j], EMAIL_COL)) = Some(RowLink(first))
                   /\ lookup(Field(SourceRows[i], EMAIL_COL)) = Some(RowLink(first))
                   /\ RowLink(SourceRows[j]) # RowLink(first)
                        => lookup(Field(SourceRows[j], EMAIL_COL))
                                # Some(RowLink(SourceRows[j]))

\* the source is 'A ,1' then 'a,2 ': the lookup of 'a' answers 1 and the
\* loaded count is 1
DuplicateKeyLoaded ==
    /\ phase = "listening"
    /\ SourceRows = <<Row(Some(<<"A", " ">>), Some(<<"1">>)),
                      Row(Some(<<"a">>), Some(<<"2", " ">>))>>
    /\ lookup(Some(<<"a">>)) = Some(<<"1">>)
    /\ resp = Response("GET /health", 200,
                [ok |-> TRUE, loaded |-> 1, csvPath |-> MagicListPath])

\* C4 as stated: after a load, for every row with non-empty key and value,
\* lookup(normalize(key)) returns that row's value.
EveryFilledRowFound ==
    phase = "listening" =>
        \A i \in DOMAIN SourceRows :
            FilledRow(SourceRows[i])
            => lookup(Some(RowKey(SourceRows[i]))) = Some(RowLink(SourceRows[i]))

\* C4 amended: after a load, for every row with non-empty key and value that
\* no earlier such row shares its normalized key with, lookup(normalize(key))
\* returns that row's trimmed value.
EveryFirstFilledRowFound ==
    phase = "listening" =>
        \A i \in DOMAIN SourceRows :
            (/\ FilledRow(SourceRows[i])
             /\ \A j \in 1..(i - 1) :
                    FilledRow(SourceRows[j])
                    => RowKey(SourceRows[j]) # RowKey(SourceRows[i]))
            => lookup(Some(RowKey(SourceRows[i]))) = Some(RowLink(SourceRows[i]))

\* two rows with different keys and padded fields, both found
TwoRowsFound ==
    /\ phase = "listening"
    /\ SourceRows = <<Row(Some(<<"A", " ">>), Some(<<"2", " ">>)),
                      Row(Some(<<"b">>), Some(<<"1">>))>>
    /\ lookup(Some(<<"a">>)) = Some(<<"2">>)
    /\ lookup(Some(<<"b">>)) = Some(<<"1">>)

\* C5: a row whose normalized key or trimmed value is empty adds no entry and
\* is no first occurrence: the installed table's keys are exactly the
\* normalized keys of the filled rows, its keys and values are non-empty, and
\* a filled row that only unfilled rows of its key precede is the one stored.
EmptyFieldSkip ==
    phase = "listening" =>
        /\ DOMAIN emailToLink =
                {RowKey(SourceRows[i]) :
                    i \in {n \in DOMAIN SourceRows : FilledRow(SourceRows[n])}}
        /\ \A k \in DOMAIN emailToLink : k # <<>> /\ emailToLink[k] # <<>>
        /\ \A i, j \in DOMAIN SourceRows :
                (/\ i < j
                 /\ ~FilledRow(SourceRows[i])
                 /\ FilledRow(SourceRows[j])
                 /\ FirstFilled(RowKey(SourceRows[j])) = j)
                => emailToLink[RowKey(SourceRows[j])] = RowLink(SourceRows[j])

\* 'a, ' (empty value) then 'A ,1': the later row is the one stored
SkippedThenStored ==
    /\ phase = "listening"
    /\ SourceRows = <<Row(Some(<<"a">>), Some(<<" ">>)),
                      Row(Some(<<"A", " ">>), Some(<<"1">>))>>
    /\ emailToLink = MapSet(EmptyMap, <<"a">>, <<"1">>)

(***************************************************************************)
(* Claims about reloads and requests, under Spec                           *)
(***************************************************************************)
\* the table a complete scan of rows builds: each normalized key of a filled
\* row, with the trimmed value of the earliest filled row that has the key
TableOfRows(rows) ==
    [k \in {RowKey(rows[i]) : i \in {n \in DOMAIN rows : FilledRow(rows[n])}} |->
        RowLink(rows[CHOOSE i \in DOMAIN rows :
            /\ FilledRow(rows[i]) /\ RowKey(rows[i]) = k
            /\ \A j \in 1..(i - 1) : ~(FilledRow(rows[j]) /\ RowKey(rows[j]) = k)])]

\* the complete tables of the sources a load can finish reading
CompleteTables ==
    {TableOfRows(files[p].rows) :
        p \in {q \in DOMAIN files : files[q].kind = "file" /\ ~files[q].bad}}

\* what GET /health reports
HealthReport == <<MapSize(emailToLink), lastLoadedPath>>

\* this step, the row stream of reload i reports an error
StreamFails(i) ==
    /\ i \in DOMAIN loads
    /\ loads[i].owner = "reload"
    /\ FileOf(loads[i]).kind = "file" /\ FileOf(loads[i]).bad
    /\ Len(loads') = Len(loads) - 1
    /\ \A j \in DOMAIN loads' : loads'[j].csvPath = RemoveAt(loads, i)[j].csvPath

\* this step, a POST /reload names a path that does not exist
MissingPathReload ==
    /\ loads' = loads
    /\ resp' # resp
    /\ resp'.route = "POST /reload"
    /\ resp'.status = 500
    /\ resp'.body.error[1] = "CSV not found: "

\* C1: a step in which a POST /reload fails (the path does not exist, or the
\* row stream reports an error) answers 500 and leaves the active table, the
\* recorded path, the health report and every lookup result as they were; and
\* a store with a table installed never goes back to having none.
FailedReloadNonRegression ==
    /\ [][(MissingPathReload \/ \E i \in DOMAIN loads : StreamFails(i))
            => /\ installed
               /\ resp'.route = "POST /reload" /\ resp'.status = 500
               /\ emailToLink' = emailToLink
               /\ lastLoadedPath' = lastLoadedPath
               /\ HealthReport' = HealthReport
               /\ \A k \in DOMAIN emailToLink :
                    MapGet(emailToLink', k) = Some(emailToLink[k])]_vars
    /\ [][installed => installed']_vars

\* a reload of the bad source has failed after the table of alt.csv was installed
FailedReloadKeepsTable ==
    /\ resp = Response("POST /reload", 500, [error |-> <<"Invalid row">>])
    /\ lastLoadedPath = AltPath
    /\ emailToLink = TableOfRows(files[AltPath].rows)
    /\ loads = <<>>

\* C2: the active table is always the complete table of one source; it
\* changes only in the step that ends a load, and then to the complete table
\* of that load's source; 'data' steps leave it alone; and every lookup or
\* health answer is read from it.
InstallAtomicity ==
    /\ [](phase = "listening" => emailToLink \in CompleteTables)
    /\ [][emailToLink' # emailToLink
            => \E i \in DOMAIN loads :
                /\ loads[i].pos = Len(FileOf(loads[i]).rows)
                /\ Len(loads') = Len(loads) - 1
                /\ emailToLink' = TableOfRows(FileOf(loads[i]).rows)]_vars
    /\ [][(resp' # resp /\ resp'.route \in {"GET /lookup", "POST /lookup"}
                /\ resp'.status = 200)
            => /\ emailToLink' = emailToLink
               /\ lookup(Some(resp'.body.email)) = Some(resp'.body.loginLink)]_vars
    /\ [][(resp' # resp /\ resp'.route = "GET /health")
            => /\ emailToLink' = emailToLink
               /\ resp'.body.loaded = MapSize(emailToLink)]_vars

\* a lookup answered from the old table while a reload of alt.csv has its
\* working map filled and not yet installed
LookupDuringReload ==
    /\ resp = Response("GET /lookup", 200, [email |-> <<"A">>, loginLink |-> <<"1">>])
    /\ emailToLink = TableOfRows(files[MagicListPath].rows)
    /\ \E i \in DOMAIN loads :
        /\ loads[i].csvPath = AltPath
        /\ loads[i].pos = 1
        /\ loads[i].tmp # EmptyMap

\* C6: the active table and the recorded path always come from the same load,
\* and once a reload has answered with success the store holds the table and
\* the path of that reload, the one whose 'end' ran last, whether or not a
\* reload issued after it had finished before it.
LastInstallWins ==
    /\ installed => emailToLink = TableOfRows(files[lastLoadedPath].rows)
    /\ (resp.route = "POST /reload" /\ resp.status = 200)
        => /\ lastLoadedPath = resp.body.path
           /\ emailToLink = TableOfRows(files[resp.body.path].rows)

\* two reloads overlapped; the one issued first ended last and holds the store
OvertakenReloadWins ==
    /\ resp.route = "POST /reload" /\ resp.status = 200
    /\ resp.overtaken
    /\ resp.body.path = AltPath
    /\ lastLoadedPath = AltPath
    /\ emailToLink = TableOfRows(files[AltPath].rows)
    /\ loads = <<>>

\* C7: once the service is running, no load failure of a POST /reload takes
\* the process down.
LoadErrorsCaughtAtBoundary ==
    \A i \in DOMAIN loads : loads[i].owner = "reload" => phase # "crashed"

\* the header key does not match a configured secret
KeyMismatch(key) == API_ACCESS_KEY # <<>> /\ key # Some(API_ACCESS_KEY)

\* C8: in every state the service can be in, a POST /lookup or POST /reload
\* whose x-api-key differs from a configured non-empty secret, or is absent,
\* is answered 401 Unauthorized with no login link, and starts no load; and
\* the step that answers 401 leaves the loads, the table and the path alone.
AuthBeforeLogic ==
    /\ [](phase = "listening"
            => \A key \in {k \in KeyInputs : KeyMismatch(k)} :
                /\ \A body \in LookupBodyInputs :
                    PostLookupHandler(key, body)
                        = [route |-> "POST /lookup", status |-> 401,
                           body |-> [error |-> <<"Unauthorized">>],
                           overtaken |-> FALSE]
                /\ \A body \in ReloadBodyInputs :
                    /\ ReloadOutcome(key, body).resp
                        = [route |-> "POST /reload", status |-> 401,
                           body |-> [error |-> <<"Unauthorized">>],
                           overtaken |-> FALSE]
                    /\ ReloadOutcome(key, body).loads = loads)
    /\ [][(resp' # resp /\ resp'.status = 401)
            => /\ loads' = loads
               /\ emailToLink' = emailToLink
               /\ lastLoadedPath' = lastLoadedPath]_vars

\* a reload was refused while the secret "k" is configured and the table of
\* alt.csv is active
ReloadRefused ==
    /\ API_ACCESS_KEY = <<"k">>
    /\ resp = Unauthorized("POST /reload")
    /\ loads = <<>>
    /\ lastLoadedPath = AltPath

\* C9: with an empty or unset secret every request passes the guard; GET
\* /lookup and GET /health are never answered 401; a POST /lookup or POST
\* /reload is answered 401 exactly when a non-empty secret is configured and
\* the header mismatches.
AuthScope ==
    /\ resp.status = 401
        => (resp.route \in {"POST /lookup", "POST /reload"} /\ API_ACCESS_KEY # <<>>)
    /\ phase = "listening"
        => /\ GetHealthResponse.status # 401
           /\ \A query \in EmailInputs : GetLookupResponse(query).status # 401
           /\ \A key \in KeyInputs :
                /\ \A body \in LookupBodyInputs :
                    PostLookupHandler(key, body).status = 401 <=> KeyMismatch(key)
                /\ \A body \in ReloadBodyInputs :
                    IF KeyMismatch(key)
                    THEN ReloadOutcome(key, body).resp.status = 401
                    ELSE \/ ReloadOutcome(key, body).loads # loads
                         \/ ReloadOutcome(key, body).resp.status = 500

\* with a blank secret a POST /lookup was answered 200, and so it is whatever
\* the header
OpenPostWithBlankSecret ==
    /\ env.API_ACCESS_KEY = Some(<<>>)
    /\ resp.route = "POST /lookup"
    /\ resp.status = 200
    /\ \A key \in KeyInputs :
        PostLookupHandler(key, Some("email" :> resp.body.email)) = resp

\* the outcome the claim gives a lookup of email against the active table
OutcomeOf(email, r) ==
    LET k == IF email = Undefined THEN <<>> ELSE ToLowerCase(Trim(TheValue(email)))
    IN  /\ r.status \in {200, 400, 404}
        /\ r.status = 400 <=> k = <<>>
        /\ r.status = 404 <=> (k # <<>> /\ k \notin DOMAIN emailToLink)
        /\ r.status = 200
            => r.body = [email |-> Trim(TheValue(email)), loginLink |-> emailToLink[k]]

\* C10: in every state the service can be in, a lookup past the guard answers
\* 400 exactly when the key is missing or empty after trim and lowercase, 404
\* exactly when the normalized key is non-empty and absent from the active
\* table, and otherwise 200 with the value the table maps the normalized key
\* to and the email as sent, trimmed and not lowercased.
LookupOutcome ==
    phase = "listening"
        => /\ \A email \in EmailInputs : OutcomeOf(email, GetLookupResponse(email))
           /\ \A key \in {k \in KeyInputs : ~KeyMismatch(k)}, body \in LookupBodyInputs :
                OutcomeOf(OptField(body, "email"), PostLookupHandler(key, body))

\* ' A' was looked up in the table of alt.csv: found under 'a', echoed as 'A'
LookupEchoesTrimmed ==
    /\ resp = Response("GET /lookup", 200, [email |-> <<"A">>, loginLink |-> <<"2">>])
    /\ resp = GetLookupResponse(Some(<<" ", "A">>))

\* a load is in flight: its stream has been opened and neither 'end' nor
\* 'error' has been delivered yet
ReloadInProgress == \E i \in DOMAIN loads : loads[i].owner = "reload"

\* the email and the header of the POST lookup that is probed: a key of the
\* default source, sent with the header the guard accepts
ProbeEmail == Some(<<" ", "A">>)
ProbeKey == IF API_ACCESS_KEY = <<>> THEN Undefined ELSE Some(API_ACCESS_KEY)

\* C11: while a reload is in progress, whatever its position in its source and
\* however many loads overlap, a health request, every GET lookup and a POST
\* lookup can each be answered in the very next step, none of them waits for
\* the 'end' or 'error' of a load, and what a GET lookup answers is read from
\* the active table: a found key carries the active table's value, a key is
\* reported absent exactly when the active table lacks it.
LookupsNeverBlocked ==
    (phase = "listening" /\ ReloadInProgress)
        => /\ ENABLED GetHealth
           /\ ENABLED PostLookup(ProbeKey, Some("email" :> TheValue(ProbeEmail)))
           /\ \A query \in EmailInputs :
                /\ ENABLED GetLookup(query)
                /\ GetLookupResponse(query).status = 200
                    => GetLookupResponse(query).body.loginLink
                            = emailToLink[ToLowerCase(Trim(TheValue(query)))]
                /\ GetLookupResponse(query).status = 404
                    => ToLowerCase(Trim(TheValue(query))) \notin DOMAIN emailToLink

\* a GET lookup was answered from the table of alt.csv after a later reload
\* ended, while the reload it overtook is still streaming its rows
LookupDuringOvertakenReload ==
    /\ \E i \in DOMAIN loads : loads[i].overtaken /\ loads[i].owner = "reload"
    /\ resp.route = "GET /lookup"
    /\ resp.status = 200
    /\ lastLoadedPath = AltPath

\* the process has ended: process.exit(1) of the startup catch, or an
\* uncaught exception
Stopped == phase \in {"exited", "crashed"}

\* the store as the module creates it: no table installed
NoTableInstalled ==
    /\ ~installed
    /\ emailToLink = EmptyMap
    /\ lastLoadedPath = DEFAULT_CSV_PATH

\* C12: the service listens only once the initial load has installed a table;
\* the process leaves its startup either listening with the table of the
\* default source installed, or stopped with no table installed, and a stopped
\* process never listens again; as long as no table is installed no request
\* has been answered and no reload has been started.
StartupGating ==
    /\ [](phase = "listening" => installed)
    /\ [](~installed
            => /\ NoTableInstalled
               /\ resp = NoResponse
               /\ \A i \in DOMAIN loads : loads[i].owner = "startup")
    /\ [][(phase \in {"boot", "loading"} /\ phase' \notin {"boot", "loading"})
            => \/ /\ phase' = "listening"
                  /\ installed'
                  /\ lastLoadedPath' = DEFAULT_CSV_PATH
                  /\ emailToLink' = TableOfRows(files[DEFAULT_CSV_PATH].rows)
               \/ /\ Stopped'
                  /\ NoTableInstalled']_vars
    /\ [][Stopped => (phase' = phase /\ resp' = resp)]_vars

\* the initial load of bad.csv failed after its first row: the process exited,
\* nothing was installed and nothing was answered
InitialLoadFailed ==
    /\ env.CSV_PATH = Some(<<"bad.csv">>)
    /\ phase = "exited"
    /\ NoTableInstalled
    /\ loads = <<>>
    /\ resp = NoResponse

\* the key of the single row of the source
SourceKey == files[MagicListPath].rows[1][EMAIL_COL]

\* two characters that differ at most in letter case
SameLetter(c, d) == c = d \/ {c, d} \in {{"a", "A"}, {"b", "B"}, {"c", "C"}}

\* two strings that differ only in letter case and in surrounding whitespace:
\* outside a stretch of each there is only whitespace, and the two stretches
\* agree letter by letter
SimilarKeys(s, t) ==
    \E i \in 1..(Len(s) + 1), k \in 1..(Len(t) + 1), n \in 0..Len(s) :
        /\ i + n - 1 <= Len(s)
        /\ k + n - 1 <= Len(t)
        /\ \A x \in 1..Len(s) : (x < i \/ x > i + n - 1) => s[x] = " "
        /\ \A y \in 1..Len(t) : (y < k \/ y > k + n - 1) => t[y] = " "
        /\ \A z \in 0..(n - 1) : SameLetter(s[i + z], t[k + z])

\* what a lookup answers apart from the echoed email
LookupResult(r) == <<r.status, IF r.status = 200 THEN r.body.loginLink ELSE r.body.error>>

\* C13: normalizing a normalized key changes nothing, for the key of the
\* source and for every request key; so a lookup of norm(K) and a lookup of
\* norm(norm(K)) find the same entry, and every request key that differs from
\* the key of the source only in letter case or surrounding whitespace gets
\* the result the key of the source itself gets: the stored value when the key
\* has a character other than whitespace.
NormIdempotent ==
    /\ \A K \in KeyStrings \cup {SourceKey} :
        /\ norm(Some(norm(Some(K)))) = norm(Some(K))
        /\ lookup(Some(norm(Some(K)))) = lookup(Some(norm(Some(norm(Some(K))))))
    /\ phase = "listening"
        => \A K \in KeyStrings :
            SimilarKeys(SourceKey, K)
                => /\ lookup(Some(K)) = lookup(Some(SourceKey))
                   /\ LookupResult(GetLookupResponse(Some(K)))
                        = LookupResult(GetLookupResponse(Some(SourceKey)))
                   /\ (\E x \in DOMAIN K : K[x] # " ") => lookup(Some(K)) = Some(<<"1">>)

\* the source holds the key ' A ' and the lookup of 'a' found its value
FoundUnderOtherCase ==
    /\ SourceKey = <<" ", "A", " ">>
    /\ resp = Response("GET /lookup", 200, [email |-> <<"a">>, loginLink |-> <<"1">>])

\* this step, load i reaches the 'end' of a readable source and leaves the
\* loads in flight
LoadEnds(i) ==
    /\ i \in DOMAIN loads
    /\ FileOf(loads[i]).kind = "file" /\ ~FileOf(loads[i]).bad
    /\ loads[i].pos = Len(FileOf(loads[i]).rows)
    /\ Len(loads') = Len(loads) - 1
    /\ \A j \in DOMAIN loads' : loads'[j].csvPath = RemoveAt(loads, i)[j].csvPath

\* the distinct normalized keys among the rows of a source that have both a
\* key and a value
FilledKeys(p) == {RowKey(files[p].rows[n]) : n \in {m \in DOMAIN files[p].rows : FilledRow(files[p].rows[m])}}

\* C14: whenever requests are served, GET /health reports as loaded the number
\* of entries of the active table, which is the number of distinct keys of the
\* source at the csvPath it reports; a step that ends a load makes the report
\* that load's path and the size of that load's working map; every other step
\* (a row, a failed load, a request, a new reload) leaves the report as it was.
SnapshotConsistency ==
    /\ [](phase = "listening"
            => /\ GetHealthResponse.status = 200
               /\ GetHealthResponse.body.loaded = Cardinality(DOMAIN emailToLink)
               /\ GetHealthResponse.body.csvPath \in DOMAIN files
               /\ GetHealthResponse.body.loaded
                    = Cardinality(FilledKeys(GetHealthResponse.body.csvPath))
               /\ DOMAIN emailToLink = FilledKeys(GetHealthResponse.body.csvPath))
    /\ [][(\E i \in DOMAIN loads : LoadEnds(i))
            => \E i \in DOMAIN loads :
                /\ LoadEnds(i)
                /\ GetHealthResponse'.body.csvPath = loads[i].csvPath
                /\ GetHealthResponse'.body.loaded = MapSize(loads[i].tmp)]_vars
    /\ [][~(\E i \in DOMAIN loads : LoadEnds(i))
            => GetHealthResponse'.body = GetHealthResponse.body]_vars

\* health was asked with the table of alt.csv active, after a reload of the
\* default source had read its row and before that reload ended
HealthWhileReloading ==
    /\ resp = GetHealthResponse
    /\ resp.body.csvPath = AltPath
    /\ resp.body.loaded = 2
    /\ \E i \in DOMAIN loads :
        /\ loads[i].csvPath = MagicListPath
        /\ loads[i].pos = 1
        /\ loads[i].owner = "reload"

\* a POST /reload has been answered with success
ReloadSucceeded(r) == r.route = "POST /reload" /\ r.status = 200

\* the load a POST /reload of path p opens, sent with the accepted header
OpenedLoad(p) ==
    LET out == ReloadOutcome(ProbeKey, Some("path" :> p))
    IN  out.loads[Len(out.loads)]

\* C15: a successful POST /reload answers {reloaded: true, count, path} with
\* the path of one load and the number of distinct normalized keys among the
\* filled rows of the source at that path; the step that sends the answer ends
\* a load of a reload and reports that load's path and the size of that load's
\* own working map, whatever other loads are in flight; and the load a reload
\* opens has the resolved request path and an empty working map of its own.
ReloadResult ==
    /\ [](ReloadSucceeded(resp)
            => /\ resp.body.reloaded
               /\ resp.body.path \in DOMAIN files
               /\ resp.body.count = Cardinality(FilledKeys(resp.body.path)))
    /\ [][(resp' # resp /\ ReloadSucceeded(resp'))
            => \E i \in DOMAIN loads :
                /\ LoadEnds(i)
                /\ loads[i].owner = "reload"
                /\ resp'.body = [reloaded |-> TRUE,
                                 count |-> Cardinality(DOMAIN loads[i].tmp),
                                 path |-> loads[i].csvPath]]_vars
    /\ [](phase = "listening"
            => \A p \in {<<"alt.csv">>, AltPath} :
                /\ OpenedLoad(p).csvPath = <<"", "app", "alt.csv">>
                /\ OpenedLoad(p).tmp = EmptyMap
                /\ OpenedLoad(p).pos = 0)

\* the reload of alt.csv answered with its own two entries while a reload of
\* the default source, holding one entry in its working map, is still in flight
ReloadCountsOwnTable ==
    /\ resp = Response("POST /reload", 200,
                [reloaded |-> TRUE, count |-> 2, path |-> AltPath])
    /\ \E i \in DOMAIN loads :
        /\ loads[i].csvPath = MagicListPath
        /\ loads[i].owner = "reload"
        /\ MapSize(loads[i].tmp) = 1

\* a POST /reload has been answered by its load: success or 500
ReloadAnswered == resp.route = "POST /reload" /\ resp.status \in {200, 500}

\* C16: whenever a POST /reload that passed the guard has a load in flight,
\* a response to a POST /reload (success or 500) is eventually sent.
EveryReloadAnswered == ReloadInProgress ~> ReloadAnswered

\* this step, load i takes in its next row
RowRead(i) ==
    /\ i \in DOMAIN loads
    /\ Len(loads') = Len(loads)
    /\ loads'[i].pos = loads[i].pos + 1

\* C17: a step that takes a row into a load changes that load's working map
\* and nothing else: not the active table, not the recorded path, not another
\* load; every working map holds exactly the rows its own load has read so
\* far; a step that answers a lookup or a health request changes neither the
\* table, the path nor any load; and the active table or the recorded path
\* changes only in a step that ends a load, both together, to that load's
\* working map and path.
TableImmutability ==
    /\ [][\A i \in DOMAIN loads :
            RowRead(i)
                => /\ emailToLink' = emailToLink
                   /\ lastLoadedPath' = lastLoadedPath
                   /\ \A j \in DOMAIN loads \ {i} : loads'[j] = loads[j]]_vars
    /\ [](\A i \in DOMAIN loads :
            FileOf(loads[i]).kind = "file"
                => loads[i].tmp = TableOfRows(SubSeq(FileOf(loads[i]).rows, 1, loads[i].pos)))
    /\ [][(resp' # resp
                /\ resp'.route \in {"GET /health", "GET /lookup", "POST /lookup"})
            => /\ emailToLink' = emailToLink
               /\ lastLoadedPath' = lastLoadedPath
               /\ loads' = loads]_vars
    /\ [][(emailToLink' # emailToLink \/ lastLoadedPath' # lastLoadedPath)
            => \E i \in DOMAIN loads :
                /\ LoadEnds(i)
                /\ emailToLink' = loads[i].tmp
                /\ lastLoadedPath' = loads[i].csvPath]_vars

\* a reload of alt.csv has both rows in its working map, the table of the
\* default source is still the active one and has just answered a POST lookup
WorkingMapFilled ==
    /\ emailToLink = TableOfRows(files[MagicListPath].rows)
    /\ lastLoadedPath = MagicListPath
    /\ \E i \in DOMAIN loads :
        /\ loads[i].csvPath = AltPath
        /\ loads[i].pos = 2
        /\ loads[i].tmp = TableOfRows(files[AltPath].rows)
    /\ resp.route = "POST /lookup"
    /\ resp.status = 200

\* the bodies of a POST /reload that name no path: no body, an empty object,
\* an empty path
PathlessBodies == {Undefined, Some(EmptyObject), Some("path" :> <<>>)}

\* C18: whatever path the last successful load recorded, a POST /reload that
\* passes the guard and names no path opens a load of the configured default
\* path, with a working map of its own; and the step that ends a reload of the
\* default path installs the table of the default source and makes GET /health
\* report the default path.
ReloadDefaultPath ==
    /\ [](phase = "listening"
            => \A body \in PathlessBodies :
                LET out == ReloadOutcome(ProbeKey, body)
                    opened == out.loads[Len(out.loads)]
                IN  /\ Len(out.loads) = Len(loads) + 1
                    /\ opened.csvPath = DEFAULT_CSV_PATH
                    /\ opened.csvPath = <<"", "app", "data", "magic_login_list.csv">>
                    /\ opened.owner = "reload"
                    /\ opened.tmp = EmptyMap)
    /\ [][\A i \in DOMAIN loads :
            (LoadEnds(i) /\ loads[i].owner = "reload" /\ loads[i].csvPath = DEFAULT_CSV_PATH)
                => /\ lastLoadedPath' = DEFAULT_CSV_PATH
                   /\ emailToLink' = TableOfRows(files[DEFAULT_CSV_PATH].rows)
                   /\ GetHealthResponse'.body.csvPath = DEFAULT_CSV_PATH
                   /\ ReloadSucceeded(resp')
                   /\ resp'.body.path = DEFAULT_CSV_PATH]_vars

\* alt.csv was loaded by a reload and is the recorded path; a reload that
\* named no path has read the row of the default source and not yet ended
DefaultReloadAfterCustom ==
    /\ lastLoadedPath = AltPath
    /\ emailToLink = TableOfRows(files[AltPath].rows)
    /\ loads = <<[csvPath |-> MagicListPath,
                  tmp |-> TableOfRows(files[MagicListPath].rows),
                  pos |-> 1, owner |-> "reload", overtaken |-> FALSE]>>

\* C19: against the same active table, GET /lookup with an email string in the
\* query and POST /lookup with the same string in the JSON body, sent with no
\* secret configured or with the matching header, answer with the same status
\* and, on 200, with the same email and the same loginLink.
LookupRoutesAgree ==
    phase = "listening"
        => \A e \in EmailInputs \ {Undefined},
              key \in {k \in KeyInputs : API_ACCESS_KEY = <<>> \/ k = Some(API_ACCESS_KEY)} :
                LET get == GetLookupResponse(e)
                    post == PostLookupHandler(key, Some("email" :> TheValue(e)))
                IN  /\ get.status = post.status
                    /\ get.status \in {200, 400, 404}
                    /\ get.status = 200
                        => /\ get.body.email = post.body.email
                           /\ get.body.loginLink = post.body.loginLink

\* with the secret 'k' configured, POST /lookup of ' A' sent with the matching
\* header was answered as GET /lookup of ' A' is
PostAnsweredAsGet ==
    /\ env.API_ACCESS_KEY = Some(<<"k">>)
    /\ resp = Response("POST /lookup", 200, [email |-> <<"A">>, loginLink |-> <<"1">>])
    /\ resp = PostLookupHandler(Some(<<"k">>), Some("email" :> <<" ", "A">>))
    /\ resp.body = GetLookupResponse(Some(<<" ", "A">>)).body

====
